---- MODULE Spec2Model ----
(***************************************************************************)
(* Workflow orchestration of the DataRush master agent:                    *)
(*   agents/master_agent/enhanced_workflows.py  (EnhancedWorkflows)        *)
(*   agents/master_agent/agent.py               (MasterAgent)              *)
(*   agents/master_agent/simple_integration.py  (SimpleMasterAgentInteg.)  *)
(*                                                                         *)
(* Python values are modelled as follows.  A str is a TLA+ string.  A dict *)
(* is a function whose DOMAIN is its key set; the dict `stages`, whose     *)
(* insertion order the code iterates, is a sequence of <<key, value>>      *)
(* entries.  A call that may raise returns [ok |-> TRUE, val |-> v] or     *)
(* [ok |-> FALSE, exc |-> message].  The emoji glyphs of the headings are  *)
(* left out of the string literals and the bullet glyph is written '-'.    *)
(***************************************************************************)
EXTENDS Integers, Sequences, FiniteSets, TLC

(***************************************************************************)
(* Bounds of the model.                                                    *)
(***************************************************************************)
MaxWords == 2
MaxTotalRecs == 4

(***************************************************************************)
(* str primitives: `in` (substring), lower(), replace('_',' '), title(),   *)
(* "\n".join().                                                            *)
(***************************************************************************)
Ch(s, i) == SubSeq(s, i, i)

UpperChars == "ABCDEFGHIJKLMNOPQRSTUVWXYZÁÉÍÓÚÑ"
LowerChars == "abcdefghijklmnopqrstuvwxyzáéíóúñ"

IsUpperChar(c) == \E i \in 1..Len(UpperChars) : Ch(UpperChars, i) = c
IsLowerChar(c) == \E i \in 1..Len(LowerChars) : Ch(LowerChars, i) = c

LowerChar(c) ==
    IF IsUpperChar(c)
    THEN Ch(LowerChars, CHOOSE i \in 1..Len(UpperChars) : Ch(UpperChars, i) = c)
    ELSE c

UpperChar(c) ==
    IF IsLowerChar(c)
    THEN Ch(UpperChars, CHOOSE i \in 1..Len(LowerChars) : Ch(LowerChars, i) = c)
    ELSE c

RECURSIVE LowerFrom(_, _)
LowerFrom(s, i) ==
    IF i > Len(s) THEN "" ELSE LowerChar(Ch(s, i)) \o LowerFrom(s, i + 1)

\* str.lower()
Lower(s) == LowerFrom(s, 1)

\* needle in haystack
Contains(needle, haystack) ==
    \E i \in 1..(Len(haystack) - Len(needle) + 1) :
        SubSeq(haystack, i, i + Len(needle) - 1) = needle

\* any(keyword in text for keyword in keywords)
AnyIn(keywords, text) ==
    \E k \in 1..Len(keywords) : Contains(keywords[k], text)

RECURSIVE ReplaceUnderscoreFrom(_, _)
ReplaceUnderscoreFrom(s, i) ==
    IF i > Len(s) THEN ""
    ELSE (IF Ch(s, i) = "_" THEN " " ELSE Ch(s, i)) \o ReplaceUnderscoreFrom(s, i + 1)

\* s.replace('_', ' ')
ReplaceUnderscore(s) == ReplaceUnderscoreFrom(s, 1)

IsCased(c) == IsUpperChar(c) \/ IsLowerChar(c)

RECURSIVE TitleFrom(_, _)
TitleFrom(s, i) ==
    IF i > Len(s) THEN ""
    ELSE (IF i > 1 /\ IsCased(Ch(s, i - 1))
          THEN LowerChar(Ch(s, i))
          ELSE UpperChar(Ch(s, i))) \o TitleFrom(s, i + 1)

\* str.title()
Title(s) == TitleFrom(s, 1)

RECURSIVE JoinFrom(_, _, _)
JoinFrom(parts, sep, i) ==
    IF i > Len(parts) THEN ""
    ELSE IF i = Len(parts) THEN parts[i]
    ELSE parts[i] \o sep \o JoinFrom(parts, sep, i + 1)

\* sep.join(parts)
Join(parts, sep) == JoinFrom(parts, sep, 1)

(***************************************************************************)
(* dict primitives.                                                        *)
(***************************************************************************)
Has(d, k) == k \in DOMAIN d

\* d.get(k, default)
Get(d, k, default) == IF k \in DOMAIN d THEN d[k] ELSE default

Ok(v) == [ok |-> TRUE, val |-> v]
Raise(msg) == [ok |-> FALSE, exc |-> msg]

(***************************************************************************)
(* The registry: EnhancedWorkflows.workflow_templates.                     *)
(***************************************************************************)
AgentStages == <<"data_analysis", "research", "business_advisor">>

AgentStageSet == {AgentStages[i] : i \in 1..Len(AgentStages)}

TemplateIds ==
    <<"strategic_analysis", "market_analysis", "predictive_analysis",
      "holiday_impact_analysis", "seasonal_analysis">>

workflow_templates ==
    [id \in {TemplateIds[i] : i \in 1..Len(TemplateIds)} |->
        CASE id = "strategic_analysis" ->
                [name |-> "Análisis Estratégico Completo",
                 description |-> "Análisis integral que combina datos, investigación y recomendaciones estratégicas",
                 agents |-> AgentStages,
                 workflow |-> <<"data_analysis", "research", "business_advisor",
                                "cross_validation", "strategic_synthesis">>,
                 output_format |-> "strategic_report"]
          [] id = "market_analysis" ->
                [name |-> "Análisis de Mercado Integrado",
                 description |-> "Análisis de mercado que combina datos internos con investigación externa",
                 agents |-> AgentStages,
                 workflow |-> <<"data_analysis", "research", "business_advisor",
                                "competitive_analysis", "implementation_plan">>,
                 output_format |-> "market_report"]
          [] id = "predictive_analysis" ->
                [name |-> "Análisis Predictivo Avanzado",
                 description |-> "Análisis predictivo que combina datos históricos con factores externos",
                 agents |-> AgentStages,
                 workflow |-> <<"data_analysis", "research", "business_advisor",
                                "predictive_modeling", "scenario_planning">>,
                 output_format |-> "predictive_report"]
          [] id = "holiday_impact_analysis" ->
                [name |-> "Análisis de Impacto de Feriados",
                 description |-> "Análisis específico del impacto de feriados en el negocio",
                 agents |-> AgentStages,
                 workflow |-> <<"data_analysis", "research", "business_advisor",
                                "impact_assessment", "holiday_strategy">>,
                 output_format |-> "holiday_report"]
          [] id = "seasonal_analysis" ->
                [name |-> "Análisis Estacional Integral",
                 description |-> "Análisis completo de patrones estacionales y su impacto",
                 agents |-> AgentStages,
                 workflow |-> <<"data_analysis", "research", "business_advisor",
                                "seasonal_optimization", "year_round_strategy">>,
                 output_format |-> "seasonal_report"]]

Registry == {workflow_templates[id] : id \in DOMAIN workflow_templates}

StrategicKeywords == <<"estratégico", "estrategia", "plan", "completo", "integral">>
MarketKeywords == <<"mercado", "competencia", "competitivo", "benchmark">>
PredictiveKeywords == <<"predicción", "pronóstico", "futuro", "proyección">>
HolidayKeywords == <<"feriado", "vacaciones", "navidad", "año nuevo">>
SeasonalKeywords == <<"estacional", "temporada", "verano", "invierno">>

\* A selector that tests the market rule after the holiday rule.
get_workflow_for_query_reordered(query) ==
    LET query_lower == Lower(query) IN
    IF AnyIn(StrategicKeywords, query_lower) THEN workflow_templates["strategic_analysis"]
    ELSE IF AnyIn(PredictiveKeywords, query_lower) THEN workflow_templates["predictive_analysis"]
    ELSE IF AnyIn(HolidayKeywords, query_lower) THEN workflow_templates["holiday_impact_analysis"]
    ELSE IF AnyIn(MarketKeywords, query_lower) THEN workflow_templates["market_analysis"]
    ELSE IF AnyIn(SeasonalKeywords, query_lower) THEN workflow_templates["seasonal_analysis"]
    ELSE workflow_templates["strategic_analysis"]

\* A selector without the default branch: None when no rule matches.
get_workflow_for_query_nodefault(query) ==
    LET query_lower == Lower(query) IN
    IF AnyIn(StrategicKeywords, query_lower) THEN workflow_templates["strategic_analysis"]
    ELSE IF AnyIn(MarketKeywords, query_lower) THEN workflow_templates["market_analysis"]
    ELSE IF AnyIn(PredictiveKeywords, query_lower) THEN workflow_templates["predictive_analysis"]
    ELSE IF AnyIn(HolidayKeywords, query_lower) THEN workflow_templates["holiday_impact_analysis"]
    ELSE IF AnyIn(SeasonalKeywords, query_lower) THEN workflow_templates["seasonal_analysis"]
    ELSE [name |-> "None"]

\* EnhancedWorkflows.get_workflow_for_query
get_workflow_for_query(query) ==
    LET query_lower == Lower(query) IN
    IF AnyIn(StrategicKeywords, query_lower) THEN workflow_templates["strategic_analysis"]
    ELSE IF AnyIn(MarketKeywords, query_lower) THEN workflow_templates["market_analysis"]
    ELSE IF AnyIn(PredictiveKeywords, query_lower) THEN workflow_templates["predictive_analysis"]
    ELSE IF AnyIn(HolidayKeywords, query_lower) THEN workflow_templates["holiday_impact_analysis"]
    ELSE IF AnyIn(SeasonalKeywords, query_lower) THEN workflow_templates["seasonal_analysis"]
    ELSE workflow_templates["strategic_analysis"]

(***************************************************************************)
(* Queries.  Words are joined by single blanks; the vocabulary has a       *)
(* keyword of every rule, upper-case spellings, a word that contains a     *)
(* keyword ('planta' has 'plan'), the two halves of the two-word keyword   *)
(* 'año nuevo', and a word without any keyword.                            *)
(***************************************************************************)
Words ==
    {"Estratégico", "MERCADO", "mercado", "futuro", "feriado", "verano",
     "planta", "año", "nuevo", "hola"}

RECURSIVE QueriesOfLen(_)
QueriesOfLen(n) ==
    IF n = 0 THEN {""}
    ELSE IF n = 1 THEN Words
    ELSE {q \o " " \o w : q \in QueriesOfLen(n - 1), w \in Words}

GeneratedQueries == UNION {QueriesOfLen(n) : n \in 0..MaxWords}

\* The queries of tests/test_enhanced_workflows.py and of the specification.
TestQueries ==
    {"",
     "Necesito un análisis estratégico completo",
     "análisis de mercado competitivo",
     "predicción de demanda futura",
     "impacto de feriados navideños",
     "patrones estacionales de verano",
     "consulta general"}

Queries == GeneratedQueries \cup TestQueries

(***************************************************************************)
(* Python values whose type the code inspects: None, bool, dict.           *)
(***************************************************************************)
PyNone == [py |-> "None"]
PyBool(b) == [py |-> "bool", b |-> b]
PyDict(d) == [py |-> "dict", d |-> d]

\* bool(v)
Truthy(v) ==
    CASE v.py = "None" -> FALSE
      [] v.py = "bool" -> v.b
      [] v.py = "dict" -> DOMAIN v.d # {}

\* The contexts a caller passes: none, an empty dict, data loaded or not.
Contexts ==
    {PyNone,
     PyDict(<<>>),
     PyDict([data_loaded |-> PyBool(TRUE)]),
     PyDict([data_loaded |-> PyBool(FALSE)])}

(***************************************************************************)
(* The classifier: MasterAgent._analyze_query.                             *)
(***************************************************************************)
CapabilityIds == <<"data_analysis", "business_advisor", "research", "chat">>

agent_capabilities ==
    [id \in {CapabilityIds[i] : i \in 1..Len(CapabilityIds)} |->
        CASE id = "data_analysis" ->
                [name |-> "Análisis de Datos",
                 keywords |-> <<"análisis", "datos", "tendencia", "patrón",
                                "estadística", "métrica", "gráfico", "visualización">>]
          [] id = "business_advisor" ->
                [name |-> "Asesor de Negocios",
                 keywords |-> <<"negocio", "recomendación", "estrategia", "turismo",
                                "retail", "restaurante", "transporte", "servicio">>]
          [] id = "research" ->
                [name |-> "Investigador",
                 keywords |-> <<"investigar", "buscar", "información", "contexto",
                                "fuente", "estudio", "investigación">>]
          [] id = "chat" ->
                [name |-> "Chat General",
                 keywords |-> <<"pregunta", "ayuda", "información", "general", "básico">>]]

ComplexityLevels == <<"high", "medium", "low">>

complexity_indicators ==
    [level \in {"high", "medium", "low"} |->
        CASE level = "high" ->
                <<"completo", "integral", "estratégico", "análisis profundo",
                  "investigación", "recomendación">>
          [] level = "medium" ->
                <<"análisis", "comparar", "evaluar", "estudiar", "examinar">>
          [] level = "low" ->
                <<"pregunta", "información", "ayuda", "básico">>]

\* MasterAgent._classify_query_type
_classify_query_type(query_lower) ==
    IF AnyIn(<<"negocio", "recomendación", "estrategia", "turismo", "retail">>, query_lower)
    THEN "business"
    ELSE IF AnyIn(<<"análisis", "datos", "tendencia", "patrón", "métrica">>, query_lower)
    THEN "analysis"
    ELSE IF AnyIn(<<"investigar", "buscar", "información", "contexto">>, query_lower)
    THEN "research"
    ELSE IF AnyIn(<<"completo", "integral", "todo", "todos">>, query_lower)
    THEN "comprehensive"
    ELSE "general"

\* A classifier without the fallback to ['chat'].
_analyze_query_nodefault(query, context) ==
    LET query_lower == Lower(query)
        matching == {i \in 1..Len(ComplexityLevels) :
                        AnyIn(complexity_indicators[ComplexityLevels[i]], query_lower)}
        complexity ==
            IF matching = {} THEN "low"
            ELSE ComplexityLevels[CHOOSE i \in matching : \A j \in matching : i <= j]
        found == SelectSeq(CapabilityIds,
                    LAMBDA id : AnyIn(agent_capabilities[id].keywords, query_lower))
        has_data_context ==
            IF ~Truthy(context) THEN context
            ELSE Get(context.d, "data_loaded", PyBool(FALSE))
    IN  [complexity |-> complexity,
         required_capabilities |-> found,
         has_data_context |-> has_data_context,
         query_type |-> _classify_query_type(query_lower)]

\* A classifier whose loop over the levels lacks the break: the last
\* matching level wins.
_analyze_query_lastmatch(query, context) ==
    LET query_lower == Lower(query)
        matching == {i \in 1..Len(ComplexityLevels) :
                        AnyIn(complexity_indicators[ComplexityLevels[i]], query_lower)}
        complexity ==
            IF matching = {} THEN "low"
            ELSE ComplexityLevels[CHOOSE i \in matching : \A j \in matching : i >= j]
        found == SelectSeq(CapabilityIds,
                    LAMBDA id : AnyIn(agent_capabilities[id].keywords, query_lower))
        required_capabilities == IF found = <<>> THEN <<"chat">> ELSE found
        has_data_context ==
            IF ~Truthy(context) THEN context
            ELSE Get(context.d, "data_loaded", PyBool(FALSE))
    IN  [complexity |-> complexity,
         required_capabilities |-> required_capabilities,
         has_data_context |-> has_data_context,
         query_type |-> _classify_query_type(query_lower)]

\* MasterAgent._analyze_query
_analyze_query(query, context) ==
    LET query_lower == Lower(query)
        matching == {i \in 1..Len(ComplexityLevels) :
                        AnyIn(complexity_indicators[ComplexityLevels[i]], query_lower)}
        complexity ==
            IF matching = {} THEN "low"
            ELSE ComplexityLevels[CHOOSE i \in matching : \A j \in matching : i <= j]
        found == SelectSeq(CapabilityIds,
                    LAMBDA id : AnyIn(agent_capabilities[id].keywords, query_lower))
        required_capabilities == IF found = <<>> THEN <<"chat">> ELSE found
        has_data_context ==
            IF ~Truthy(context) THEN context
            ELSE Get(context.d, "data_loaded", PyBool(FALSE))
    IN  [complexity |-> complexity,
         required_capabilities |-> required_capabilities,
         has_data_context |-> has_data_context,
         query_type |-> _classify_query_type(query_lower)]

\* MasterAgent._select_workflow: the text is looked up in the classification
\* under the key 'query', which _analyze_query does not set.
_select_workflow(analysis_result) ==
    get_workflow_for_query(Get(analysis_result, "query", ""))

(***************************************************************************)
(* Elements of the 'insights' and 'recommendations' lists of a provider    *)
(* result: a dict (research_agent, the tests' mocks) or a plain str        *)
(* (data_analysis insights, business_advisor recommendations).             *)
(***************************************************************************)
DictItem(d) == [kind |-> "dict", d |-> d]
StrItem(s) == [kind |-> "str", s |-> s]

AttributeErrorGet == "'str' object has no attribute 'get'"

\* item.get(k, default)
ItemGet(item, k, default) ==
    IF item.kind = "dict" THEN Ok(Get(item.d, k, default))
    ELSE Raise(AttributeErrorGet)

\* [item.get('description', '') for item in items]
RECURSIVE DescriptionsFrom(_, _)
DescriptionsFrom(items, i) ==
    IF i > Len(items) THEN Ok(<<>>)
    ELSE LET head == ItemGet(items[i], "description", "")
             rest == DescriptionsFrom(items, i + 1)
         IN  IF ~head.ok THEN head
             ELSE IF ~rest.ok THEN rest
             ELSE Ok(<<head.val>> \o rest.val)

(***************************************************************************)
(* The ordered dict `stages`.                                              *)
(***************************************************************************)
StageNames(stages) == [i \in 1..Len(stages) |-> stages[i][1]]

HasStage(stages, name) == \E i \in 1..Len(stages) : stages[i][1] = name

StageResult(stages, name) ==
    stages[CHOOSE i \in 1..Len(stages) : stages[i][1] = name][2]

\* A dict that puts a new key in front of the others.
PutStageFirst(stages, name, result) ==
    IF HasStage(stages, name)
    THEN [i \in 1..Len(stages) |->
            IF stages[i][1] = name THEN <<name, result>> ELSE stages[i]]
    ELSE <<<<name, result>>>> \o stages

\* A store that writes the strategic synthesis under the key of the
\* cross validation.
PutStageShared(stages, name, result) ==
    LET key == IF name = "strategic_synthesis" THEN "cross_validation" ELSE name IN
    IF HasStage(stages, key)
    THEN [i \in 1..Len(stages) |->
            IF stages[i][1] = key THEN <<key, result>> ELSE stages[i]]
    ELSE Append(stages, <<key, result>>)

\* A store that keeps only the results of the stages that succeeded.
PutStageIfSucceeded(stages, name, result) ==
    IF ~Get(result, "success", TRUE) THEN stages
    ELSE IF HasStage(stages, name)
    THEN [i \in 1..Len(stages) |->
            IF stages[i][1] = name THEN <<name, result>> ELSE stages[i]]
    ELSE Append(stages, <<name, result>>)

\* stages[name] = result: a new key goes last, a known key keeps its place.
PutStage(stages, name, result) ==
    IF HasStage(stages, name)
    THEN [i \in 1..Len(stages) |->
            IF stages[i][1] = name THEN <<name, result>> ELSE stages[i]]
    ELSE Append(stages, <<name, result>>)

\* stage_result.get('success', False)
Succeeded(stage_result) == Get(stage_result, "success", FALSE)

(***************************************************************************)
(* Derived stages.                                                         *)
(***************************************************************************)
\* EnhancedWorkflows._extract_key_insights
_extract_key_insights(stage_result) ==
    IF ~Has(stage_result, "raw_result") THEN Ok(<<>>)
    ELSE
      LET raw_result == stage_result.raw_result
          fromInsights ==
              IF Has(raw_result, "insights")
              THEN DescriptionsFrom(raw_result.insights, 1) ELSE Ok(<<>>)
          fromRecs ==
              IF Has(raw_result, "recommendations")
              THEN DescriptionsFrom(raw_result.recommendations, 1) ELSE Ok(<<>>)
          fromSummary ==
              IF Has(stage_result, "summary") THEN <<stage_result.summary>> ELSE <<>>
      IN  IF ~fromInsights.ok THEN fromInsights
          ELSE IF ~fromRecs.ok THEN fromRecs
          ELSE Ok(SelectSeq(fromInsights.val \o fromRecs.val \o fromSummary,
                            LAMBDA insight : insight # ""))

\* The loop of _cross_validate_results and _create_strategic_synthesis over
\* stages.items(): the insights of each succeeded stage, in stage order.
RECURSIVE InsightsOfSucceeded(_, _)
InsightsOfSucceeded(stages, i) ==
    IF i > Len(stages) THEN Ok(<<>>)
    ELSE IF ~Succeeded(stages[i][2]) THEN InsightsOfSucceeded(stages, i + 1)
    ELSE LET head == _extract_key_insights(stages[i][2])
             rest == InsightsOfSucceeded(stages, i + 1)
         IN  IF ~head.ok THEN head
             ELSE IF ~rest.ok THEN rest
             ELSE Ok(<<<<stages[i][1], head.val>>>> \o rest.val)

RECURSIVE Flatten(_, _)
Flatten(insights, i) ==
    IF i > Len(insights) THEN <<>>
    ELSE insights[i][2] \o Flatten(insights, i + 1)

\* EnhancedWorkflows._calculate_consistency_score, in tenths (1.0 or 0.8).
_calculate_consistency_score(insights) ==
    IF Len(Flatten(insights, 1)) < 2 THEN 10 ELSE 8

\* EnhancedWorkflows._cross_validate_results; consistency_score in tenths.
_cross_validate_results(stages) ==
    LET insights == InsightsOfSucceeded(stages, 1) IN
    IF ~insights.ok THEN insights
    ELSE Ok([consistency_score |->
                 IF Len(insights.val) >= 2
                 THEN _calculate_consistency_score(insights.val) ELSE 0,
             conflicts |-> <<>>,
             agreements |-> <<>>,
             recommendations |-> <<>>])

\* EnhancedWorkflows._prioritize_insights: insights[:5]
_prioritize_insights(insights) ==
    SubSeq(insights, 1, IF Len(insights) < 5 THEN Len(insights) ELSE 5)

\* EnhancedWorkflows._create_strategic_synthesis
_create_strategic_synthesis(stages, query) ==
    LET insights == InsightsOfSucceeded(stages, 1) IN
    IF ~insights.ok THEN insights
    ELSE Ok([executive_summary |-> "Análisis estratégico completo para: " \o query,
             key_findings |-> _prioritize_insights(Flatten(insights.val, 1)),
             strategic_opportunities |-> <<>>,
             risk_factors |-> <<>>,
             success_metrics |-> <<>>])

\* The placeholder stages: _perform_competitive_analysis ... _create_year_round_strategy
PlaceholderStages ==
    {"competitive_analysis", "implementation_plan", "predictive_modeling",
     "scenario_planning", "impact_assessment", "holiday_strategy",
     "seasonal_optimization", "year_round_strategy"}

PlaceholderResult(stage) ==
    CASE stage = "competitive_analysis" ->
            [success |-> TRUE, analysis |-> "Competitive analysis placeholder"]
      [] stage = "implementation_plan" ->
            [success |-> TRUE, plan |-> "Implementation plan placeholder"]
      [] stage = "predictive_modeling" ->
            [success |-> TRUE, model |-> "Predictive model placeholder"]
      [] stage = "scenario_planning" ->
            [success |-> TRUE, scenarios |-> "Scenario planning placeholder"]
      [] stage = "impact_assessment" ->
            [success |-> TRUE, impact |-> "Holiday impact assessment placeholder"]
      [] stage = "holiday_strategy" ->
            [success |-> TRUE, strategy |-> "Holiday strategy placeholder"]
      [] stage = "seasonal_optimization" ->
            [success |-> TRUE, optimization |-> "Seasonal optimization placeholder"]
      [] stage = "year_round_strategy" ->
            [success |-> TRUE, strategy |-> "Year-round strategy placeholder"]

(***************************************************************************)
(* The synthesizer of EnhancedWorkflows.                                   *)
(***************************************************************************)
\* The section of one stage, as _generate_final_synthesis appends it.
StageSection(name, stage_result) ==
    IF ~Succeeded(stage_result) THEN <<>>
    ELSE <<"### " \o Title(ReplaceUnderscore(name)), "">>
         \o (IF Has(stage_result, "summary") THEN <<stage_result.summary>> ELSE <<>>)
         \o <<"">>

RECURSIVE StageSections(_, _)
StageSections(stages, i) ==
    IF i > Len(stages) THEN <<>>
    ELSE StageSection(stages[i][1], stages[i][2]) \o StageSections(stages, i + 1)

\* EnhancedWorkflows._generate_final_synthesis
_generate_final_synthesis(stages, workflow) ==
    Join(<<"## " \o workflow.name, "", "### Resumen Ejecutivo", "">>
         \o StageSections(stages, 1), "\n")

\* priority_order.get(priority, 2)
PriorityRank(priority) ==
    CASE priority = "high" -> 3
      [] priority = "medium" -> 2
      [] priority = "low" -> 1
      [] OTHER -> 2

\* A tagging that writes the variable's name instead of its value.
RECURSIVE RecsOfStageUntagged(_, _, _)
RecsOfStageUntagged(name, recs, i) ==
    IF i > Len(recs) THEN Ok(<<>>)
    ELSE LET priority == ItemGet(recs[i], "priority", "medium")
             description == ItemGet(recs[i], "description", "")
             rest == RecsOfStageUntagged(name, recs, i + 1)
         IN  IF ~priority.ok THEN priority
             ELSE IF ~rest.ok THEN rest
             ELSE Ok(<<[priority |-> priority.val,
                        description |-> description.val,
                        source |-> "stage_name"]>> \o rest.val)

\* The recommendations of one stage, tagged with the stage as their source.
RECURSIVE RecsOfStage(_, _, _)
RecsOfStage(name, recs, i) ==
    IF i > Len(recs) THEN Ok(<<>>)
    ELSE LET priority == ItemGet(recs[i], "priority", "medium")
             description == ItemGet(recs[i], "description", "")
             rest == RecsOfStage(name, recs, i + 1)
         IN  IF ~priority.ok THEN priority
             ELSE IF ~rest.ok THEN rest
             ELSE Ok(<<[priority |-> priority.val,
                        description |-> description.val,
                        source |-> name]>> \o rest.val)

\* The first loop of _generate_prioritized_recommendations.
RECURSIVE CollectRecommendations(_, _)
CollectRecommendations(stages, i) ==
    IF i > Len(stages) THEN Ok(<<>>)
    ELSE LET stage_result == stages[i][2]
             here == IF Succeeded(stage_result)
                        /\ Has(stage_result, "raw_result")
                        /\ Has(stage_result.raw_result, "recommendations")
                     THEN RecsOfStage(stages[i][1],
                                      stage_result.raw_result.recommendations, 1)
                     ELSE Ok(<<>>)
             rest == CollectRecommendations(stages, i + 1)
         IN  IF ~here.ok THEN here
             ELSE IF ~rest.ok THEN rest
             ELSE Ok(here.val \o rest.val)

\* Insert rec behind every element whose rank is not lower than its own.
InsertByPriority(sorted, rec) ==
    LET before == {i \in 1..Len(sorted) :
                      PriorityRank(sorted[i].priority) >= PriorityRank(rec.priority)}
        n == Cardinality(before)
    IN  SubSeq(sorted, 1, n) \o <<rec>> \o SubSeq(sorted, n + 1, Len(sorted))

RECURSIVE SortFrom(_, _, _)
SortFrom(recs, i, sorted) ==
    IF i > Len(recs) THEN sorted
    ELSE SortFrom(recs, i + 1, InsertByPriority(sorted, recs[i]))

Reverse(seq) == [i \in 1..Len(seq) |-> seq[Len(seq) + 1 - i]]

\* Insert rec in front of every element whose rank is not higher than its own.
InsertAscending(sorted, rec) ==
    LET before == {i \in 1..Len(sorted) :
                      PriorityRank(sorted[i].priority) <= PriorityRank(rec.priority)}
        n == Cardinality(before)
    IN  SubSeq(sorted, 1, n) \o <<rec>> \o SubSeq(sorted, n + 1, Len(sorted))

RECURSIVE SortAscendingFrom(_, _, _)
SortAscendingFrom(recs, i, sorted) ==
    IF i > Len(recs) THEN sorted
    ELSE SortAscendingFrom(recs, i + 1, InsertAscending(sorted, recs[i]))

\* An ascending sort followed by reverse(): ties end up in reverse order.
SortThenReverse(recs) == Reverse(SortAscendingFrom(recs, 1, <<>>))

\* recommendations.sort(key=priority_order.get(priority, 2), reverse=True):
\* list.sort is stable, also with reverse=True.
SortByPriority(recs) == SortFrom(recs, 1, <<>>)

\* EnhancedWorkflows._generate_prioritized_recommendations
_generate_prioritized_recommendations(stages) ==
    LET collected == CollectRecommendations(stages, 1) IN
    IF ~collected.ok THEN collected ELSE Ok(SortByPriority(collected.val))

\* EnhancedWorkflows._generate_next_steps
_generate_next_steps ==
    <<"Revisar y validar los hallazgos con datos adicionales",
      "Implementar las recomendaciones de alta prioridad",
      "Monitorear los indicadores de éxito definidos",
      "Programar seguimiento en 30 días">>

(***************************************************************************)
(* The synthesizer of MasterAgent.                                         *)
(***************************************************************************)
\* isinstance(result, dict) and result.get('success', False)
AgentSucceeded(result) == Get(result, "success", FALSE)

RECURSIVE BasicSections(_, _)
BasicSections(agent_results, i) ==
    IF i > Len(agent_results) THEN <<>>
    ELSE (IF AgentSucceeded(agent_results[i][2])
          THEN <<"### " \o agent_capabilities[agent_results[i][1]].name, "",
                 Get(agent_results[i][2], "summary", "No hay resumen disponible"), "">>
          ELSE <<>>) \o BasicSections(agent_results, i + 1)

RECURSIVE FailedEntries(_, _)
FailedEntries(agent_results, i) ==
    IF i > Len(agent_results) THEN <<>>
    ELSE (IF ~AgentSucceeded(agent_results[i][2])
          THEN <<"- **" \o agent_capabilities[agent_results[i][1]].name \o "**: "
                 \o Get(agent_results[i][2], "error", "Error desconocido")>>
          ELSE <<>>) \o FailedEntries(agent_results, i + 1)

\* The fallback of _synthesize_results over a plain {agent_id: result} dict.
BasicSynthesis(agent_results, query) ==
    LET failed == FailedEntries(agent_results, 1) IN
    Join(<<"## Análisis Integral - Respuesta del Agente Maestro", "",
           "**Consulta:** " \o query, "">>
         \o BasicSections(agent_results, 1)
         \o (IF failed # <<>>
             THEN <<"### Agentes con Problemas", "">> \o failed \o <<"">>
             ELSE <<>>)
         \o <<"### Síntesis Integral", "">>, "\n")

\* MasterAgent._synthesize_results
_synthesize_results(results, query) ==
    IF Has(results, "synthesis") /\ Has(results, "stages")
    THEN results.synthesis
    ELSE BasicSynthesis(results, query)

(***************************************************************************)
(* Capability providers.  What a provider call returns is not decided by   *)
(* the orchestrator: each call either raises or returns one of the result  *)
(* shapes below, and the summary call on that result returns or raises.    *)
(***************************************************************************)
\* simple_data_analysis_agent.analyze_user_query
DataAnalysisResults ==
    {[analysis_type |-> "general_analysis",
      insights |-> <<StrItem("El análisis abarca 304,100 pasajeros en total"),
                     StrItem("Cubriendo 7 países diferentes")>>,
      success |-> TRUE],
     [error |-> TRUE,
      message |-> "Error in data analysis: no data",
      analysis_type |-> "error"],
     [insights |-> <<DictItem([description |-> "Crecimiento consistente en los últimos 3 años"]),
                     DictItem([description |-> "Picos de tráfico en verano y navidad"])>>,
      recommendations |-> <<DictItem([priority |-> "low", description |-> "x"])>>]}

\* simple_research_agent.research_topic
ResearchResults ==
    {[topic |-> "feriado",
      insights |-> <<DictItem([type |-> "holiday_insight",
                               description |-> "Los feriados crean oportunidades de negocio significativas en el sector aéreo.",
                               source |-> "análisis_interno"])>>,
      recommendations |-> <<DictItem([type |-> "prediction_recommendation",
                                      description |-> "y",
                                      priority |-> "high"]),
                            DictItem([type |-> "analysis_recommendation",
                                      description |-> "z",
                                      priority |-> "medium"])>>],
     [topic |-> "hola", insights |-> <<>>, recommendations |-> <<>>],
     [error |-> TRUE,
      message |-> "Error in research: failed",
      analysis_type |-> "research_error"]}

\* simple_business_advisor.analyze_business_query
BusinessAdvisorResults ==
    {[analysis_type |-> "business_analysis",
      business_sector |-> "turismo",
      recommendations |-> <<StrItem("**Recomendaciones para Turismo:**"),
                            StrItem("")>>,
      success |-> TRUE],
     [error |-> TRUE,
      message |-> "No se pudo identificar el giro del negocio.",
      analysis_type |-> "business_analysis_error"],
     [recommendations |-> <<DictItem([priority |-> "high", description |-> "w"]),
                            DictItem([description |-> "sin prioridad"])>>]}

ProviderResults(stage) ==
    CASE stage = "data_analysis" -> DataAnalysisResults
      [] stage = "research" -> ResearchResults
      [] stage = "business_advisor" -> BusinessAdvisorResults

\* get_analysis_summary / get_research_summary / get_business_summary
ProviderSummary(stage, result) ==
    IF Get(result, "error", FALSE)
    THEN "Error: " \o Get(result, "message", "Error desconocido")
    ELSE "Resumen de " \o stage

ProviderError(stage) == "provider failure in " \o stage

\* The outcomes of the two provider calls of one agent stage.
ProviderOutcomes(stage) ==
    {[call |-> "raise", exc |-> ProviderError(stage)]}
    \cup {[call |-> "return", result |-> r, summary |-> "return"] :
              r \in ProviderResults(stage)}
    \cup {[call |-> "return", result |-> r, summary |-> "raise",
           exc |-> ProviderError(stage)] : r \in ProviderResults(stage)}

\* An agent stage without the try/except: the provider's exception leaves it.
_execute_agent_stage_uncaught(stage, outcome) ==
    IF outcome.call = "raise" \/ outcome.summary = "raise"
    THEN Raise(outcome.exc)
    ELSE Ok([success |-> TRUE,
             summary |-> ProviderSummary(stage, outcome.result),
             raw_result |-> outcome.result])

\* An agent stage that also treats a returned error report as a failure.
_execute_agent_stage_error_aware(stage, outcome) ==
    IF outcome.call = "raise" \/ outcome.summary = "raise"
    THEN Ok([success |-> FALSE, error |-> outcome.exc])
    ELSE IF Get(outcome.result, "error", FALSE)
    THEN Ok([success |-> FALSE,
             error |-> Get(outcome.result, "message", "Error desconocido")])
    ELSE Ok([success |-> TRUE,
             summary |-> ProviderSummary(stage, outcome.result),
             raw_result |-> outcome.result])

\* EnhancedWorkflows._execute_agent_stage, given what the provider does.
_execute_agent_stage(stage, outcome) ==
    IF outcome.call = "raise" \/ outcome.summary = "raise"
    THEN Ok([success |-> FALSE, error |-> outcome.exc])
    ELSE Ok([success |-> TRUE,
             summary |-> ProviderSummary(stage, outcome.result),
             raw_result |-> outcome.result])

(***************************************************************************)
(* MasterAgent.workflow_templates: the templates that are listed and       *)
(* suggested to the caller.                                                *)
(***************************************************************************)
MasterTemplateIds ==
    <<"comprehensive_analysis", "business_strategy", "research_validation",
      "quick_analysis">>

master_workflow_templates ==
    [id \in {MasterTemplateIds[i] : i \in 1..Len(MasterTemplateIds)} |->
        CASE id = "comprehensive_analysis" ->
                [name |-> "Análisis Integral",
                 description |-> "Análisis completo que combina datos, investigación y recomendaciones",
                 agents |-> <<"data_analysis", "research", "business_advisor">>,
                 workflow |-> <<"data_analysis", "research", "business_advisor">>]
          [] id = "business_strategy" ->
                [name |-> "Estrategia de Negocio",
                 description |-> "Desarrollo de estrategia de negocio con análisis de datos",
                 agents |-> <<"business_advisor", "data_analysis">>,
                 workflow |-> <<"data_analysis", "business_advisor">>]
          [] id = "research_validation" ->
                [name |-> "Validación de Investigación",
                 description |-> "Validar hallazgos con investigación externa",
                 agents |-> <<"data_analysis", "research">>,
                 workflow |-> <<"data_analysis", "research">>]
          [] id = "quick_analysis" ->
                [name |-> "Análisis Rápido",
                 description |-> "Análisis rápido de datos sin investigación externa",
                 agents |-> <<"data_analysis">>,
                 workflow |-> <<"data_analysis">>]]

(***************************************************************************)
(* State.  One call of the public interface is in progress at a time:      *)
(*   entry            the method the caller invoked                        *)
(*   pc               the position inside that call                        *)
(*   query, context   the arguments                                        *)
(*   analysis_result  the classification (process_query, step 1)           *)
(*   workflow         the selected template                                *)
(*   results          the dict built by execute_enhanced_workflow          *)
(*   stage_idx        the position of the loop over workflow['workflow']   *)
(*   calls            the providers invoked so far, in order               *)
(*   ret              what the call returned or raised                     *)
(***************************************************************************)
VARIABLES pc, entry, query, context, analysis_result, workflow, results,
          stage_idx, calls, ret

(***************************************************************************)
(* State of the long-lived instances, which outlives a call:               *)
(*   ew_workflow_templates  enhanced_workflows.workflow_templates          *)
(*   ma_workflow_templates  master_agent.workflow_templates                *)
(*   research_cache         ResearchAgent.research_cache                   *)
(*   now                    the wall clock datetime.now(), in seconds      *)
(***************************************************************************)
VARIABLES ew_workflow_templates, ma_workflow_templates, research_cache, now

instance_vars ==
    <<ew_workflow_templates, ma_workflow_templates, research_cache, now>>

vars == <<pc, entry, query, context, analysis_result, workflow, results,
          stage_idx, calls, ret, ew_workflow_templates, ma_workflow_templates,
          research_cache, now>>

Init ==
    /\ pc = "idle"
    /\ entry = ""
    /\ query = ""
    /\ context = PyNone
    /\ analysis_result = <<>>
    /\ workflow = <<>>
    /\ results = <<>>
    /\ stage_idx = 0
    /\ calls = <<>>
    /\ ret = <<>>
    /\ ew_workflow_templates = workflow_templates
    /\ ma_workflow_templates = master_workflow_templates
    /\ research_cache = <<>>
    /\ now = 0

\* An exception leaves the call: MasterAgent.process_query catches it and
\* returns its error dict; a direct caller of execute_enhanced_workflow
\* sees it raised.
Escapes(msg) ==
    /\ pc' = "done"
    /\ ret' = IF entry = "process_query"
              THEN Ok([success |-> FALSE, error |-> msg, query |-> query])
              ELSE Raise(msg)

\* enhanced_workflows.get_workflow_for_query(q)
CallGetWorkflowForQuery(q) ==
    /\ UNCHANGED instance_vars
    /\ pc = "idle"
    /\ entry' = "get_workflow_for_query"
    /\ query' = q
    /\ ret' = Ok(get_workflow_for_query(q))
    /\ pc' = "done"
    /\ UNCHANGED <<context, analysis_result, workflow, results, stage_idx, calls>>

\* simple_master_agent.process_query(q, ctx) -> master_agent.process_query
CallProcessQuery(q, ctx) ==
    /\ UNCHANGED instance_vars
    /\ pc = "idle"
    /\ entry' = "process_query"
    /\ query' = q
    /\ context' = ctx
    /\ pc' = "analyze"
    /\ UNCHANGED <<analysis_result, workflow, results, stage_idx, calls, ret>>

\* process_query, step 1
AnalyzeQuery ==
    /\ UNCHANGED instance_vars
    /\ pc = "analyze"
    /\ analysis_result' = _analyze_query(query, context)
    /\ pc' = "select"
    /\ UNCHANGED <<entry, query, context, workflow, results, stage_idx, calls, ret>>

\* process_query, step 2
SelectWorkflow ==
    /\ UNCHANGED instance_vars
    /\ pc = "select"
    /\ workflow' = _select_workflow(analysis_result)
    /\ pc' = "execute"
    /\ UNCHANGED <<entry, query, context, analysis_result, results, stage_idx,
                   calls, ret>>

\* enhanced_workflows.execute_enhanced_workflow(wf, q, ctx, agents), called
\* directly with a template of the registry.
CallExecuteEnhancedWorkflow(wf, q, ctx) ==
    /\ UNCHANGED instance_vars
    /\ pc = "idle"
    /\ entry' = "execute_enhanced_workflow"
    /\ query' = q
    /\ context' = ctx
    /\ workflow' = wf
    /\ pc' = "execute"
    /\ UNCHANGED <<analysis_result, results, stage_idx, calls, ret>>

\* An execute_enhanced_workflow that consumes the stage list of the
\* registry's template while it sets up the run.
BeginExecuteConsuming ==
    /\ pc = "execute"
    /\ results' = [workflow_name |-> workflow.name,
                   query |-> query,
                   stages |-> <<>>,
                   synthesis |-> <<>>,
                   recommendations |-> <<>>,
                   next_steps |-> <<>>]
    /\ stage_idx' = 1
    /\ pc' = "stages"
    /\ ew_workflow_templates' =
          [id \in DOMAIN ew_workflow_templates |->
              IF ew_workflow_templates[id].name = workflow.name
              THEN [ew_workflow_templates[id] EXCEPT !.workflow = <<>>]
              ELSE ew_workflow_templates[id]]
    /\ UNCHANGED <<entry, query, context, analysis_result, workflow, calls, ret,
                   ma_workflow_templates, research_cache, now>>

\* execute_enhanced_workflow: the results dict before the loop
BeginExecute ==
    /\ UNCHANGED instance_vars
    /\ pc = "execute"
    /\ results' = [workflow_name |-> workflow.name,
                   query |-> query,
                   stages |-> <<>>,
                   synthesis |-> <<>>,
                   recommendations |-> <<>>,
                   next_steps |-> <<>>]
    /\ stage_idx' = 1
    /\ pc' = "stages"
    /\ UNCHANGED <<entry, query, context, analysis_result, workflow, calls, ret>>

CurrentStage == workflow.workflow[stage_idx]

InLoop == pc = "stages" /\ stage_idx <= Len(workflow.workflow)

\* results['stages'][stage] = value, then the next iteration; or the
\* exception leaves execute_enhanced_workflow.
StoreOrEscape(value) ==
    IF value.ok
    THEN /\ results' = [results EXCEPT
                            !.stages = PutStage(@, CurrentStage, value.val)]
         /\ stage_idx' = stage_idx + 1
         /\ UNCHANGED <<pc, ret>>
    ELSE /\ Escapes(value.exc)
         /\ UNCHANGED <<results, stage_idx>>

\* An agent stage that is tried a second time when its provider raised.
ExecuteAgentStageRetrying(outcome) ==
    /\ UNCHANGED instance_vars
    /\ InLoop
    /\ CurrentStage \in AgentStageSet
    /\ outcome \in ProviderOutcomes(CurrentStage)
    /\ calls' = Append(calls, [stage |-> CurrentStage,
                                raised |-> outcome.call = "raise"
                                           \/ outcome.summary = "raise",
                                outcome |-> outcome])
    /\ IF (outcome.call = "raise" \/ outcome.summary = "raise")
          /\ \A i \in 1..Len(calls) : calls[i].stage # CurrentStage
       THEN UNCHANGED <<results, stage_idx, pc, ret>>
       ELSE StoreOrEscape(_execute_agent_stage(CurrentStage, outcome))
    /\ UNCHANGED <<entry, query, context, analysis_result, workflow>>

\* loop body, stage in ['data_analysis', 'research', 'business_advisor']
ExecuteAgentStage(outcome) ==
    /\ UNCHANGED instance_vars
    /\ InLoop
    /\ CurrentStage \in AgentStageSet
    /\ outcome \in ProviderOutcomes(CurrentStage)
    /\ calls' = Append(calls, [stage |-> CurrentStage,
                                raised |-> outcome.call = "raise"
                                           \/ outcome.summary = "raise",
                                outcome |-> outcome])
    /\ StoreOrEscape(_execute_agent_stage(CurrentStage, outcome))
    /\ UNCHANGED <<entry, query, context, analysis_result, workflow>>

\* loop body, stage == 'cross_validation'
CrossValidation ==
    /\ UNCHANGED instance_vars
    /\ InLoop
    /\ CurrentStage = "cross_validation"
    /\ StoreOrEscape(_cross_validate_results(results.stages))
    /\ UNCHANGED <<entry, query, context, analysis_result, workflow, calls>>

\* loop body, stage == 'strategic_synthesis'
StrategicSynthesis ==
    /\ UNCHANGED instance_vars
    /\ InLoop
    /\ CurrentStage = "strategic_synthesis"
    /\ StoreOrEscape(_create_strategic_synthesis(results.stages, query))
    /\ UNCHANGED <<entry, query, context, analysis_result, workflow, calls>>

\* loop body, the eight placeholder stages
PlaceholderStage ==
    /\ UNCHANGED instance_vars
    /\ InLoop
    /\ CurrentStage \in PlaceholderStages
    /\ StoreOrEscape(Ok(PlaceholderResult(CurrentStage)))
    /\ UNCHANGED <<entry, query, context, analysis_result, workflow, calls>>

\* execute_enhanced_workflow after the loop: synthesis, recommendations,
\* next steps, return.
FinalizeRun ==
    /\ UNCHANGED instance_vars
    /\ pc = "stages"
    /\ stage_idx > Len(workflow.workflow)
    /\ LET recs == _generate_prioritized_recommendations(results.stages)
           run == [results EXCEPT
                     !.synthesis = _generate_final_synthesis(results.stages, workflow),
                     !.recommendations = recs.val,
                     !.next_steps = _generate_next_steps]
       IN  IF ~recs.ok
           THEN /\ Escapes(recs.exc)
                /\ results' = [results EXCEPT
                     !.synthesis = _generate_final_synthesis(results.stages, workflow)]
           ELSE /\ results' = run
                /\ IF entry = "process_query"
                   THEN pc' = "synthesize" /\ UNCHANGED ret
                   ELSE pc' = "done" /\ ret' = Ok(run)
    /\ UNCHANGED <<entry, query, context, analysis_result, workflow, stage_idx, calls>>

\* process_query, step 4 and the return through SimpleMasterAgentIntegration
SynthesizeResults ==
    /\ UNCHANGED instance_vars
    /\ pc = "synthesize"
    /\ ret' = Ok([success |-> TRUE,
                  query |-> query,
                  workflow_used |-> workflow.name,
                  agents_involved |-> workflow.agents,
                  individual_results |-> results,
                  synthesis |-> _synthesize_results(results, query)])
    /\ pc' = "done"
    /\ UNCHANGED <<entry, query, context, analysis_result, workflow, results,
                   stage_idx, calls>>

Next ==
    \/ \E q \in Queries : CallGetWorkflowForQuery(q)
    \/ \E q \in TestQueries, ctx \in Contexts : CallProcessQuery(q, ctx)
    \/ AnalyzeQuery
    \/ SelectWorkflow
    \/ \E wf \in Registry, ctx \in Contexts :
          CallExecuteEnhancedWorkflow(wf, "consulta general", ctx)
    \/ BeginExecute
    \/ \E stage \in AgentStageSet :
          \E outcome \in ProviderOutcomes(stage) : ExecuteAgentStage(outcome)
    \/ CrossValidation
    \/ StrategicSynthesis
    \/ PlaceholderStage
    \/ FinalizeRun
    \/ SynthesizeResults

Spec == Init /\ [][Next]_vars

(***************************************************************************)
(* _generate_prioritized_recommendations on its own: the stages dict of a  *)
(* market_analysis run whose agent stages failed or returned up to         *)
(* MaxTotalRecs recommendations between them.                              *)
(***************************************************************************)
RecPool ==
    {DictItem([priority |-> "low", description |-> "x"]),
     DictItem([priority |-> "high", description |-> "y"]),
     DictItem([priority |-> "medium", description |-> "z"]),
     DictItem([priority |-> "high", description |-> "w"])}

RecLists(n) == UNION {[1..k -> RecPool] : k \in 0..n}

AgentStageInput(stage, failed, recs) ==
    _execute_agent_stage(stage,
        IF stage \in failed
        THEN [call |-> "raise", exc |-> ProviderError(stage)]
        ELSE [call |-> "return", summary |-> "return",
              result |-> [recommendations |-> recs]]).val

InitRecs ==
    \E failed \in SUBSET AgentStageSet :
      \E da \in RecLists(IF "data_analysis" \in failed THEN 0 ELSE MaxTotalRecs) :
        \E re \in RecLists(IF "research" \in failed THEN 0
                           ELSE MaxTotalRecs - Len(da)) :
          \E ba \in RecLists(IF "business_advisor" \in failed THEN 0
                             ELSE MaxTotalRecs - Len(da) - Len(re)) :
            /\ pc = "recs_input"
            /\ entry = "_generate_prioritized_recommendations"
            /\ query = ""
            /\ context = PyNone
            /\ analysis_result = <<>>
            /\ workflow = workflow_templates["market_analysis"]
            /\ results =
                 [stages |->
                    <<<<"data_analysis", AgentStageInput("data_analysis", failed, da)>>,
                      <<"research", AgentStageInput("research", failed, re)>>,
                      <<"business_advisor",
                        AgentStageInput("business_advisor", failed, ba)>>,
                      <<"competitive_analysis",
                        PlaceholderResult("competitive_analysis")>>,
                      <<"implementation_plan",
                        PlaceholderResult("implementation_plan")>>>>]
            /\ stage_idx = 0
            /\ calls = <<>>
            /\ ret = <<>>
            /\ ew_workflow_templates = workflow_templates
            /\ ma_workflow_templates = master_workflow_templates
            /\ research_cache = <<>>
            /\ now = 0

ApplyPrioritizedRecommendations ==
    /\ UNCHANGED instance_vars
    /\ pc = "recs_input"
    /\ ret' = _generate_prioritized_recommendations(results.stages)
    /\ pc' = "done"
    /\ UNCHANGED <<entry, query, context, analysis_result, workflow, results,
                   stage_idx, calls>>

NextRecs == ApplyPrioritizedRecommendations

SpecRecs == InitRecs /\ [][NextRecs]_vars

(***************************************************************************)
(* Properties.                                                             *)
(***************************************************************************)
\* execute_enhanced_workflow has returned its results dict to the caller
\* (directly, or to process_query, which has not failed since).
RunReturned ==
    \/ pc = "synthesize"
    \/ /\ pc = "done"
       /\ entry \in {"process_query", "execute_enhanced_workflow"}
       /\ ret.ok
       /\ entry = "process_query" => ret.val.success

RaisedStages == {calls[i].stage : i \in {j \in 1..Len(calls) : calls[j].raised}}

WorkflowStageSet == {workflow.workflow[i] : i \in 1..Len(workflow.workflow)}

\* The position of the first occurrence of needle in text, 0 if there is none.
IndexOf(needle, text) ==
    LET hits == {i \in 1..(Len(text) - Len(needle) + 1) :
                    SubSeq(text, i, i + Len(needle) - 1) = needle}
    IN  IF hits = {} THEN 0 ELSE CHOOSE i \in hits : \A j \in hits : i <= j

\* C1: partial-failure containment.  A direct call of
\* execute_enhanced_workflow on a registered template, whichever of its
\* agent stages' providers raise, does not raise; the run it returns has a
\* result for every stage of the template, and each stage whose provider
\* raised is recorded with success = FALSE and the exception's message.
C1_PartialFailureContainment ==
    (entry = "execute_enhanced_workflow" /\ pc = "done") =>
        /\ ret.ok
        /\ \A name \in WorkflowStageSet : HasStage(ret.val.stages, name)
        /\ \A name \in RaisedStages :
              /\ HasStage(ret.val.stages, name)
              /\ StageResult(ret.val.stages, name) =
                     [success |-> FALSE, error |-> ProviderError(name)]

\* C2: callers always receive a complete run.  Whatever the query, the
\* context and the providers do, the value process_query returns holds the
\* per-stage results of the run (individual_results) and a synthesis; it is
\* never a bare error value.
C2_CompleteRun ==
    (entry = "process_query" /\ pc = "done") =>
        /\ ret.ok
        /\ Has(ret.val, "individual_results")
        /\ Has(ret.val, "synthesis")

C3Query == "Necesito un análisis estratégico completo"

DataLoaded == PyDict([data_loaded |-> PyBool(TRUE)])

\* Some provider returned a result with a non-empty recommendations list.
RecommendationDataSupplied ==
    \E i \in 1..Len(calls) :
        /\ calls[i].outcome.call = "return"
        /\ Has(calls[i].outcome.result, "recommendations")
        /\ calls[i].outcome.result.recommendations # <<>>

C4_WorkflowOfQueryText ==
    (entry = "process_query" /\ pc = "done" /\ ret.ok /\ ret.val.success) =>
        ret.val.workflow_used = get_workflow_for_query(query).name

\* The keyword rules in the order strategic, market, predictive, holiday,
\* seasonal.
RuleKeywords ==
    <<StrategicKeywords, MarketKeywords, PredictiveKeywords, HolidayKeywords,
      SeasonalKeywords>>

MatchingRules(text) ==
    {i \in 1..Len(RuleKeywords) : AnyIn(RuleKeywords[i], Lower(text))}

SelectionReturned == entry = "get_workflow_for_query" /\ pc = "done"

\* C5: selection is first-match-wins.  When some keyword set matches the
\* lower-cased query, get_workflow_for_query returns the template of the
\* earliest matching set in the order strategic, market, predictive,
\* holiday, seasonal.
C5_FirstMatchWins ==
    (SelectionReturned /\ MatchingRules(query) # {}) =>
        LET first == CHOOSE i \in MatchingRules(query) :
                        \A j \in MatchingRules(query) : i <= j
        IN  ret.ok /\ ret.val = workflow_templates[TemplateIds[first]]

\* A query that matches the holiday and (in upper case) the market rule was
\* answered with the market template.
C5_Witness ==
    /\ SelectionReturned
    /\ query = "feriado MERCADO"
    /\ MatchingRules(query) = {2, 4}
    /\ ret.val = workflow_templates["market_analysis"]

\* C6: select never fails.  For every query, the empty one included,
\* get_workflow_for_query returns a template of the registry, and it
\* returns strategic_analysis when no keyword rule matches.
C6_SelectNeverFails ==
    SelectionReturned =>
        /\ ret.ok
        /\ ret.val \in Registry
        /\ MatchingRules(query) = {} => ret.val = workflow_templates["strategic_analysis"]

\* The empty query matched no rule and was answered with the default.
C6_Witness ==
    /\ SelectionReturned
    /\ query = ""
    /\ MatchingRules(query) = {}
    /\ ret.val = workflow_templates["strategic_analysis"]

SectionHeading(name) == "### " \o Title(ReplaceUnderscore(name))

\* C7: stage order is preserved.  In a returned run the stage results are
\* in the order of the template's workflow list, and the sections of the
\* narrative (one per succeeded stage) appear in that order too.
C7_StageOrder ==
    RunReturned =>
        /\ StageNames(results.stages) = workflow.workflow
        /\ \A i, j \in 1..Len(results.stages) :
              (i < j /\ Succeeded(results.stages[i][2])
                     /\ Succeeded(results.stages[j][2])) =>
                 LET a == IndexOf(SectionHeading(results.stages[i][1]),
                                  results.synthesis)
                     b == IndexOf(SectionHeading(results.stages[j][1]),
                                  results.synthesis)
                 IN  0 < a /\ a < b

\* A run was returned in which the first and the third stage succeeded and
\* the second failed.
C7_Witness ==
    /\ RunReturned
    /\ Len(results.stages) = Len(workflow.workflow)
    /\ Succeeded(results.stages[1][2])
    /\ ~Succeeded(results.stages[2][2])
    /\ Succeeded(results.stages[3][2])
    /\ IndexOf("### Business Advisor", results.synthesis) > 0

\* C8: failed stages are not dropped from the report.  In a returned run,
\* the synthesis handed to the caller names every stage whose provider
\* raised, together with its error message.
C8_FailuresReported ==
    RunReturned =>
        \A name \in RaisedStages :
            /\ Contains(StageResult(results.stages, name).error, results.synthesis)
            /\ \/ Contains(name, results.synthesis)
               \/ Contains(Title(ReplaceUnderscore(name)), results.synthesis)

RecsReturned ==
    entry = "_generate_prioritized_recommendations" /\ pc = "done" /\ ret.ok

\* The (priority, description) a recommendation entry gets from an item.
SameRecommendation(entry_, item) ==
    /\ item.kind = "dict"
    /\ entry_.priority = Get(item.d, "priority", "medium")
    /\ entry_.description = Get(item.d, "description", "")

\* C9: recommendations come only from succeeded stages.  Every entry of the
\* recommendations list was taken from the recommendations of the raw
\* result of a stage recorded with success = TRUE, and its source names
\* that stage.
C9_OnlyFromSucceeded ==
    RecsReturned =>
        \A k \in 1..Len(ret.val) :
            /\ HasStage(results.stages, ret.val[k].source)
            /\ LET stage_result == StageResult(results.stages, ret.val[k].source)
               IN  /\ Succeeded(stage_result)
                   /\ Has(stage_result, "raw_result")
                   /\ \E n \in 1..Len(stage_result.raw_result.recommendations) :
                         SameRecommendation(ret.val[k],
                             stage_result.raw_result.recommendations[n])

\* research failed, data_analysis and business_advisor supplied
\* recommendations, and the list holds entries of both.
C9_Witness ==
    /\ RecsReturned
    /\ ~Succeeded(StageResult(results.stages, "research"))
    /\ \E k \in 1..Len(ret.val) : ret.val[k].source = "data_analysis"
    /\ \E k \in 1..Len(ret.val) : ret.val[k].source = "business_advisor"

Descriptions(recs) == [k \in 1..Len(recs) |-> recs[k].description]

Priorities(recs) == [k \in 1..Len(recs) |-> recs[k].priority]

OfRank(recs, rank) ==
    SelectSeq(recs, LAMBDA rec : PriorityRank(rec.priority) = rank)

\* C10: recommendation ordering is priority-descending and stable.  The
\* list is sorted high > medium > low; recommendations of equal priority
\* keep the order in which they were collected; and the recommendations
\* (low,x), (high,y), (medium,z), (high,w), collected in that order, come
\* out as y, w, z, x.
C10_PriorityOrderStable ==
    RecsReturned =>
        LET collected == CollectRecommendations(results.stages, 1).val IN
        /\ \A i, j \in 1..Len(ret.val) :
              i < j => PriorityRank(ret.val[i].priority)
                          >= PriorityRank(ret.val[j].priority)
        /\ \A rank \in 1..3 : OfRank(ret.val, rank) = OfRank(collected, rank)
        /\ (Descriptions(collected) = <<"x", "y", "z", "w">>
              /\ Priorities(collected) = <<"low", "high", "medium", "high">>)
           => Descriptions(ret.val) = <<"y", "w", "z", "x">>

\* The four recommendations of the example, collected from three stages,
\* came out as y, w, z, x.
C10_Witness ==
    /\ RecsReturned
    /\ Descriptions(CollectRecommendations(results.stages, 1).val)
           = <<"x", "y", "z", "w">>
    /\ Priorities(CollectRecommendations(results.stages, 1).val)
           = <<"low", "high", "medium", "high">>
    /\ Descriptions(ret.val) = <<"y", "w", "z", "x">>
    /\ ret.val[1].source # ret.val[4].source

\* C11: recommendations are deduplicated.  The list returned by
\* _generate_prioritized_recommendations never holds two entries with the
\* same description text.
C11_NoDuplicateDescriptions ==
    RecsReturned =>
        \A i, j \in 1..Len(ret.val) :
            i # j => ret.val[i].description # ret.val[j].description

\* The confidence the claim describes, in thousandths: 0.6 * succeeded/total
\* + 0.4 * the average provider-reported confidence (0.5 where a provider
\* reports none), clamped to [0, 1]; 0 for a run without a succeeded stage.
ExpectedConfidence(stages) ==
    LET succeeded == {i \in 1..Len(stages) : Succeeded(stages[i][2])}
        reported(i) ==
            IF Has(stages[i][2], "raw_result")
               /\ Has(stages[i][2].raw_result, "confidence")
            THEN stages[i][2].raw_result.confidence ELSE 500
        RECURSIVE Sum(_)
        Sum(S) == IF S = {} THEN 0
                  ELSE LET i == CHOOSE x \in S : TRUE
                       IN  reported(i) + Sum(S \ {i})
        value == (600 * Cardinality(succeeded)) \div Len(stages)
                    + (400 * (Sum(succeeded) \div Cardinality(succeeded))) \div 1000
    IN  IF succeeded = {} THEN 0
        ELSE IF value > 1000 THEN 1000 ELSE value

\* C12: confidence of a run.  A returned run carries a confidence, equal to
\* 0.6 * (succeeded stages / total stages) + 0.4 * (average reported
\* confidence, 0.5 where absent), clamped to [0, 1]: 0.8 for an all-success
\* run without reported confidence and 0.0 for an all-failed run.
C12_Confidence ==
    RunReturned =>
        /\ Has(results, "confidence")
        /\ results.confidence = ExpectedConfidence(results.stages)

\* Every provider call of the run raised.
EveryProviderRaised ==
    /\ calls # <<>>
    /\ \A i \in 1..Len(calls) : calls[i].raised

\* C13: total failure is not an error.  When every agent stage of a run
\* fails, the call still returns a run: every agent stage is recorded as
\* failed, the narrative is rendered (non-empty) and the recommendations
\* list is empty; process_query reports success with that run.
C13_TotalFailure ==
    (pc = "done" /\ entry \in {"process_query", "execute_enhanced_workflow"}
        /\ EveryProviderRaised) =>
        /\ ret.ok
        /\ entry = "process_query" =>
              /\ ret.val.success
              /\ ret.val.individual_results = results
              /\ ret.val.synthesis # ""
        /\ entry = "execute_enhanced_workflow" => ret.val = results
        /\ \A name \in AgentStageSet \cap WorkflowStageSet :
              /\ HasStage(results.stages, name)
              /\ ~Succeeded(StageResult(results.stages, name))
        /\ StageNames(results.stages) = workflow.workflow
        /\ results.synthesis # ""
        /\ results.recommendations = <<>>

\* process_query ran the strategic template, all three providers raised,
\* and the caller got a run with a narrative and no recommendations.
C13_Witness ==
    /\ pc = "done"
    /\ entry = "process_query"
    /\ Len(calls) = 3
    /\ EveryProviderRaised
    /\ ret.ok
    /\ ret.val.success
    /\ HasStage(results.stages, "cross_validation")
    /\ HasStage(results.stages, "strategic_synthesis")
    /\ ret.val.synthesis # ""
    /\ ret.val.individual_results.recommendations = <<>>

\* C14: derived stages are total.  Whenever the loop of
\* execute_enhanced_workflow is about to run cross_validation or
\* strategic_synthesis, the stage function returns a result for the map of
\* earlier stage results instead of raising.
C14_DerivedStagesTotal ==
    /\ (InLoop /\ CurrentStage = "cross_validation") =>
          _cross_validate_results(results.stages).ok
    /\ (InLoop /\ CurrentStage = "strategic_synthesis") =>
          _create_strategic_synthesis(results.stages, query).ok

(***************************************************************************)
(* MasterAgent._analyze_query on its own: one call with a query built from *)
(* the classifier's vocabulary (or taken from tests/test_master_agent.py)  *)
(* and one of the contexts.                                                *)
(***************************************************************************)
ClassifierWords ==
    {"COMPLETO", "Estratégico", "investigación", "análisis", "comparar",
     "ayuda", "información", "negocio", "hola"}

RECURSIVE ClassifierQueriesOfLen(_)
ClassifierQueriesOfLen(n) ==
    IF n = 0 THEN {""}
    ELSE IF n = 1 THEN ClassifierWords
    ELSE {q \o " " \o w : q \in ClassifierQueriesOfLen(n - 1), w \in ClassifierWords}

ClassifierQueries ==
    UNION {ClassifierQueriesOfLen(n) : n \in 0..MaxWords}
    \cup {"Busca información sobre las tendencias futuras en aviación",
          "¿Cuántos pasajeros hay en total?",
          "¿Puedes ayudarme a entender los datos?"}

\* master_agent._analyze_query(q, ctx)
CallAnalyzeQuery(q, ctx) ==
    /\ UNCHANGED instance_vars
    /\ pc = "idle"
    /\ entry' = "_analyze_query"
    /\ query' = q
    /\ context' = ctx
    /\ analysis_result' = _analyze_query(q, ctx)
    /\ ret' = Ok(_analyze_query(q, ctx))
    /\ pc' = "done"
    /\ UNCHANGED <<workflow, results, stage_idx, calls>>

NextClassify == \E q \in ClassifierQueries, ctx \in Contexts : CallAnalyzeQuery(q, ctx)

SpecClassify == Init /\ [][NextClassify]_vars

Classified == entry = "_analyze_query" /\ pc = "done"

\* The capabilities one of whose keywords occurs in the lower-cased text.
MatchingCapabilities(text) ==
    {id \in DOMAIN agent_capabilities :
        \E k \in 1..Len(agent_capabilities[id].keywords) :
            Contains(agent_capabilities[id].keywords[k], Lower(text))}

\* C15: requiredCapabilities is never empty.  _analyze_query returns a
\* required_capabilities list with at least one element, each one of
\* data_analysis, business_advisor, research, chat, and the list is exactly
\* [chat] when no capability keyword occurs in the query.
C15_RequiredCapabilitiesNonEmpty ==
    Classified =>
        LET required_capabilities == ret.val.required_capabilities IN
        /\ ret.ok
        /\ Len(required_capabilities) >= 1
        /\ \A i \in 1..Len(required_capabilities) :
              required_capabilities[i]
                  \in {"data_analysis", "business_advisor", "research", "chat"}
        /\ MatchingCapabilities(query) = {} => required_capabilities = <<"chat">>

\* A query without a capability keyword was classified with [chat].
C15_Witness ==
    /\ Classified
    /\ query = "hola COMPLETO"
    /\ MatchingCapabilities(query) = {}
    /\ ret.val.required_capabilities = <<"chat">>

\* C17: complexity tier precedence.  The complexity is high if a high
\* keyword occurs in the lower-cased query, otherwise medium if a medium
\* keyword occurs, otherwise low.
C17_ComplexityPrecedence ==
    Classified =>
        ret.val.complexity =
            IF AnyIn(complexity_indicators["high"], Lower(query)) THEN "high"
            ELSE IF AnyIn(complexity_indicators["medium"], Lower(query)) THEN "medium"
            ELSE "low"

\* A query with a medium and (in upper case) a high keyword was classified
\* high.
C17_Witness ==
    /\ Classified
    /\ query = "análisis COMPLETO"
    /\ AnyIn(complexity_indicators["high"], Lower(query))
    /\ AnyIn(complexity_indicators["medium"], Lower(query))
    /\ ret.val.complexity = "high"

\* C18: empty-query collapse.  For the empty query and any context,
\* _analyze_query returns complexity low, category general, capabilities
\* [chat], and a has_data_context that is the boolean TRUE when the context
\* reports data_loaded = True and the boolean FALSE otherwise.
C18_EmptyQueryCollapse ==
    (Classified /\ query = "") =>
        /\ ret.ok
        /\ ret.val.complexity = "low"
        /\ ret.val.query_type = "general"
        /\ ret.val.required_capabilities = <<"chat">>
        /\ ret.val.has_data_context =
              PyBool(context = PyDict([data_loaded |-> PyBool(TRUE)]))

\* A stage has started once its provider was invoked, and has finished once
\* its result is stored in results['stages'].
Started(name) == \E i \in 1..Len(calls) : calls[i].stage = name

Finished(name) == HasStage(results.stages, name)

\* C19: layered concurrency.  The independent agent stages data_analysis
\* and research (each takes only the query and the context) are started
\* concurrently: by the time one of them has finished, the other has been
\* started.  cross_validation, which reads the agent stages' results,
\* never runs before data_analysis has finished.
C19_LayeredConcurrency ==
    (pc = "stages" /\ entry = "execute_enhanced_workflow") =>
        /\ Finished("data_analysis") => Started("research")
        /\ Finished("cross_validation") => Finished("data_analysis")

(***************************************************************************)
(* A provider that never returns.  The provider call of an agent stage is  *)
(* a plain blocking call: while it does not return, the loop of            *)
(* execute_enhanced_workflow does not advance.                             *)
(***************************************************************************)
ProviderHangs ==
    /\ UNCHANGED instance_vars
    /\ InLoop
    /\ CurrentStage \in AgentStageSet
    /\ calls' = Append(calls, [stage |-> CurrentStage,
                                raised |-> FALSE,
                                outcome |-> [call |-> "hang"]])
    /\ pc' = "blocked"
    /\ UNCHANGED <<entry, query, context, analysis_result, workflow, results,
                   stage_idx, ret>>

\* A direct call of execute_enhanced_workflow whose providers return, raise
\* or hang.
NextLive ==
    \/ \E wf \in Registry :
          CallExecuteEnhancedWorkflow(wf, "consulta general", PyNone)
    \/ BeginExecute
    \/ \E stage \in AgentStageSet :
          \E outcome \in ProviderOutcomes(stage) : ExecuteAgentStage(outcome)
    \/ ProviderHangs
    \/ CrossValidation
    \/ StrategicSynthesis
    \/ PlaceholderStage
    \/ FinalizeRun

\* The interpreter runs the calling thread to completion: a step that can
\* be taken is eventually taken.
SpecLive == Init /\ [][NextLive]_vars /\ WF_vars(NextLive)

\* C20: bounded provider calls.  If a provider does not return, the call is
\* cut off by a timeout: the run does not stay blocked, and the call of
\* execute_enhanced_workflow eventually returns.
C20_BoundedProviderCalls == (pc = "blocked") ~> (pc = "done")

\* In a returned run, every stage of the template has exactly one result
\* and there is no result under another key.
OneResultPerStage ==
    RunReturned =>
        /\ \A name \in WorkflowStageSet :
              Cardinality({i \in 1..Len(results.stages) :
                              results.stages[i][1] = name}) = 1
        /\ \A i \in 1..Len(results.stages) :
              results.stages[i][1] \in WorkflowStageSet

\* A step of a run keeps every stage result that is already stored.
StageResultsKept ==
    pc \in {"stages", "synthesize"} =>
        /\ Len(results'.stages) >= Len(results.stages)
        /\ \A i \in 1..Len(results.stages) :
              results'.stages[i] = results.stages[i]

\* C21: one result per stage.  After a run has returned, the stages map
\* holds exactly one result for each stage of the template's workflow list
\* and no other key; and a result, once written, is not modified by a
\* later stage or by the synthesis.
C21_OneResultPerStage == []OneResultPerStage /\ [][StageResultsKept]_vars

\* A run of the strategic template returned with its five stage results,
\* one of them a failure.
C21_Witness ==
    /\ pc = "done"
    /\ entry = "execute_enhanced_workflow"
    /\ ret.ok
    /\ Len(ret.val.stages) = 5
    /\ HasStage(ret.val.stages, "strategic_synthesis")
    /\ \E i \in 1..5 : Has(ret.val.stages[i][2], "error")

(***************************************************************************)
(* execute_enhanced_workflow called with a template that is not one of     *)
(* the registry: an empty stage list, or a stage name without a branch in  *)
(* the loop's if/elif chain.                                               *)
(***************************************************************************)
KnownStages ==
    AgentStageSet \cup {"cross_validation", "strategic_synthesis"}
                  \cup PlaceholderStages

MalformedTemplates ==
    {[name |-> "Plantilla sin etapas",
      description |-> "Plantilla con lista de etapas vacía",
      agents |-> <<>>,
      workflow |-> <<>>,
      output_format |-> "report"],
     [name |-> "Plantilla con etapa desconocida",
      description |-> "Plantilla con una etapa sin proveedor",
      agents |-> <<"data_analysis">>,
      workflow |-> <<"data_analysis", "sentiment_analysis", "cross_validation">>,
      output_format |-> "report"]}

\* loop body, no branch of the if/elif chain matches: nothing is stored.
SkipUnknownStage ==
    /\ UNCHANGED instance_vars
    /\ InLoop
    /\ CurrentStage \notin KnownStages
    /\ stage_idx' = stage_idx + 1
    /\ UNCHANGED <<pc, entry, query, context, analysis_result, workflow,
                   results, calls, ret>>

NextTemplates ==
    \/ \E wf \in Registry \cup MalformedTemplates :
          CallExecuteEnhancedWorkflow(wf, "consulta general", PyNone)
    \/ BeginExecute
    \/ \E stage \in AgentStageSet :
          \E outcome \in ProviderOutcomes(stage) : ExecuteAgentStage(outcome)
    \/ SkipUnknownStage
    \/ CrossValidation
    \/ StrategicSynthesis
    \/ PlaceholderStage
    \/ FinalizeRun

SpecTemplates == Init /\ [][NextTemplates]_vars

Malformed(template) ==
    \/ template.workflow = <<>>
    \/ \E i \in 1..Len(template.workflow) : template.workflow[i] \notin KnownStages

\* C22: malformed templates are rejected, not executed.  A call of
\* execute_enhanced_workflow with a template whose stage list is empty or
\* names an unknown stage ends in an error, and no call returns a normal
\* run that lacks a result for a stage of its template.
C22_MalformedRejected ==
    (entry = "execute_enhanced_workflow" /\ pc = "done") =>
        /\ Malformed(workflow) => ~ret.ok
        /\ ret.ok => \A name \in WorkflowStageSet : HasStage(ret.val.stages, name)

(***************************************************************************)
(* MasterAgent.get_workflow_suggestions.  A confidence is a quotient of    *)
(* two small integers and is kept exactly, in twelfths.                    *)
(***************************************************************************)
ListSet(list) == {list[i] : i \in 1..Len(list)}

\* MasterAgent._is_workflow_appropriate
_is_workflow_appropriate(template, analysis) ==
    \E i \in 1..Len(analysis.required_capabilities) :
        analysis.required_capabilities[i] \in ListSet(template.agents)

\* A confidence that divides by the number of the workflow's agents.
_calculate_workflow_confidence_per_agent(template, analysis) ==
    LET overlap == Cardinality(ListSet(analysis.required_capabilities)
                                  \cap ListSet(template.agents))
        total_agents == Len(template.agents)
    IN  IF total_agents = 0 THEN 6 ELSE (12 * overlap) \div total_agents

\* MasterAgent._calculate_workflow_confidence, in twelfths
_calculate_workflow_confidence(template, analysis) ==
    LET overlap == Cardinality(ListSet(analysis.required_capabilities)
                                  \cap ListSet(template.agents))
        total_required == Len(analysis.required_capabilities)
    IN  IF total_required = 0 THEN 6 ELSE (12 * overlap) \div total_required

\* The loop of get_workflow_suggestions over workflow_templates.items()
RECURSIVE SuggestionsFrom(_, _, _)
SuggestionsFrom(templates, analysis, i) ==
    IF i > Len(MasterTemplateIds) THEN <<>>
    ELSE LET workflow_id == MasterTemplateIds[i]
             rest == SuggestionsFrom(templates, analysis, i + 1)
         IN  IF workflow_id \in DOMAIN templates
                /\ _is_workflow_appropriate(templates[workflow_id], analysis)
             THEN <<[id |-> workflow_id,
                     name |-> templates[workflow_id].name,
                     description |-> templates[workflow_id].description,
                     agents |-> [k \in 1..Len(templates[workflow_id].agents) |->
                                   agent_capabilities[templates[workflow_id].agents[k]].name],
                     confidence |-> _calculate_workflow_confidence(
                                        templates[workflow_id], analysis)]>> \o rest
             ELSE rest

\* Insert a suggestion behind every one whose confidence is not lower.
InsertByConfidence(sorted, suggestion) ==
    LET n == Cardinality({i \in 1..Len(sorted) :
                             sorted[i].confidence >= suggestion.confidence})
    IN  SubSeq(sorted, 1, n) \o <<suggestion>> \o SubSeq(sorted, n + 1, Len(sorted))

\* suggestions.sort(key=lambda x: x['confidence'], reverse=True)
RECURSIVE SortByConfidenceFrom(_, _, _)
SortByConfidenceFrom(suggestions, i, sorted) ==
    IF i > Len(suggestions) THEN sorted
    ELSE SortByConfidenceFrom(suggestions, i + 1,
                              InsertByConfidence(sorted, suggestions[i]))

\* MasterAgent.get_workflow_suggestions
get_workflow_suggestions(q) ==
    SortByConfidenceFrom(
        SuggestionsFrom(ma_workflow_templates, _analyze_query(q, PyNone), 1),
        1, <<>>)

\* master_agent.get_workflow_suggestions(q)
CallGetWorkflowSuggestions(q) ==
    /\ UNCHANGED instance_vars
    /\ pc = "idle"
    /\ entry' = "get_workflow_suggestions"
    /\ query' = q
    /\ analysis_result' = _analyze_query(q, PyNone)
    /\ ret' = Ok(get_workflow_suggestions(q))
    /\ pc' = "done"
    /\ UNCHANGED <<context, workflow, results, stage_idx, calls>>

NextSuggest ==
    \/ \E q \in ClassifierQueries, ctx \in Contexts : CallAnalyzeQuery(q, ctx)
    \/ \E q \in ClassifierQueries : CallGetWorkflowSuggestions(q)

SpecSuggest == Init /\ [][NextSuggest]_vars

Suggested == entry = "get_workflow_suggestions" /\ pc = "done"

\* C23: workflow suggestions are ordered by confidence.  The list that
\* get_workflow_suggestions returns is sorted by non-increasing confidence,
\* and each confidence is |required capabilities /\ workflow agents| /
\* |required capabilities| (here in twelfths) and lies in [0, 1].
C23_SuggestionsOrdered ==
    Suggested =>
        LET required == analysis_result.required_capabilities IN
        /\ ret.ok
        /\ \A i, j \in 1..Len(ret.val) :
              i < j => ret.val[i].confidence >= ret.val[j].confidence
        /\ \A k \in 1..Len(ret.val) :
              /\ ret.val[k].confidence * Len(required) =
                    12 * Cardinality(ListSet(required)
                            \cap ListSet(master_workflow_templates[ret.val[k].id].agents))
              /\ ret.val[k].confidence \in 0..12

\* A query that needs data_analysis and research: the research_validation
\* template (confidence 1) is listed before business_strategy (1/2), which
\* precedes it in the registry.
C23_Witness ==
    /\ Suggested
    /\ query = "análisis investigación"
    /\ analysis_result.required_capabilities = <<"data_analysis", "research">>
    /\ [k \in 1..Len(ret.val) |-> ret.val[k].id] =
          <<"comprehensive_analysis", "research_validation",
            "business_strategy", "quick_analysis">>
    /\ [k \in 1..Len(ret.val) |-> ret.val[k].confidence] = <<12, 12, 6, 6>>

(***************************************************************************)
(* ResearchAgent: research_topic and its cache.  The wall clock `now` is   *)
(* in seconds; a result is represented by its topic, its timestamp and its *)
(* sources (insights, recommendations and confidence are computed from     *)
(* these).                                                                 *)
(***************************************************************************)
MaxClock == 90000

\* self.max_cache_age
max_cache_age == 3600

\* The steps by which the caller's clock advances between calls.
ClockSteps == {1800, 3600, 82800}

ResearchTopics == {"feriados"}

ResearchContexts == {PyNone, PyDict([data_loaded |-> PyBool(TRUE)])}

\* str(context)
StrOfContext(ctx) ==
    CASE ctx.py = "None" -> "None"
      [] ctx.py = "dict" /\ DOMAIN ctx.d = {} -> "{}"
      [] ctx.py = "dict" /\ DOMAIN ctx.d = {"data_loaded"} ->
            "{'data_loaded': " \o (IF ctx.d.data_loaded.b THEN "True" ELSE "False") \o "}"

\* str(hash(s)) inside the f-string: equal strings hash alike; the values
\* are those of one interpreter run.
HashStr(s) ==
    CASE s = "None" -> "-7133500237350534565"
      [] s = "{}" -> "5740354900026072187"
      [] s = "{'data_loaded': True}" -> "-4224752175773395957"
      [] s = "{'data_loaded': False}" -> "8462183378565836039"

\* cache_key = f"{topic}_{hash(str(context))}"
cache_key(topic, ctx) == topic \o "_" \o HashStr(StrOfContext(ctx))

\* datetime.isoformat(), as the fields the text is made of
isoformat(t) ==
    [day |-> t \div 86400,
     hour |-> (t % 86400) \div 3600,
     minute |-> (t % 3600) \div 60,
     second |-> t % 60]

\* datetime.fromisoformat()
fromisoformat(iso) ==
    iso.day * 86400 + iso.hour * 3600 + iso.minute * 60 + iso.second

\* timedelta.seconds: the seconds within the last day of the difference
timedelta_seconds(delta) == delta % 86400

\* ResearchAgent._is_cached
_is_cached(key) ==
    IF ~Has(research_cache, key) THEN FALSE
    ELSE timedelta_seconds(now - fromisoformat(research_cache[key].timestamp))
            < max_cache_age

\* What the steps inside the try block of research_topic do: Wikipedia has
\* a page or not, or a step after the Wikipedia search raises.
ResearchOutcomes == {"sources", "no_sources", "raises"}

WikipediaSource == [source |-> "Wikipedia", relevance_score |-> 5]

\* research_topic that stores its result whatever happened inside the try.
research_topic_store_always(topic, ctx, outcome) ==
    LET key == cache_key(topic, ctx)
        started == [topic |-> topic, timestamp |-> isoformat(now),
                    sources |-> <<>>]
        found == [started EXCEPT !.sources = <<WikipediaSource>>]
    IN  IF _is_cached(key)
        THEN [val |-> research_cache[key], searches |-> <<>>,
              cache |-> research_cache]
        ELSE CASE outcome = "sources" ->
                    [val |-> found,
                     searches |-> <<"_search_wikipedia", "_search_web", "_search_news">>,
                     cache |-> (key :> found) @@ research_cache]
               [] outcome = "no_sources" ->
                    [val |-> started,
                     searches |-> <<"_search_wikipedia", "_search_web", "_search_news">>,
                     cache |-> (key :> started) @@ research_cache]
               [] outcome = "raises" ->
                    [val |-> found,
                     searches |-> <<"_search_wikipedia", "_search_web", "st.error">>,
                     cache |-> (key :> found) @@ research_cache]

\* ResearchAgent.research_topic: the value returned, the searches made (and
\* the st.error of the except branch), and the cache afterwards.
research_topic(topic, ctx, outcome) ==
    LET key == cache_key(topic, ctx)
        started == [topic |-> topic, timestamp |-> isoformat(now),
                    sources |-> <<>>]
        found == [started EXCEPT !.sources = <<WikipediaSource>>]
    IN  IF _is_cached(key)
        THEN [val |-> research_cache[key], searches |-> <<>>,
              cache |-> research_cache]
        ELSE CASE outcome = "sources" ->
                    [val |-> found,
                     searches |-> <<"_search_wikipedia", "_search_web", "_search_news">>,
                     cache |-> (key :> found) @@ research_cache]
               [] outcome = "no_sources" ->
                    [val |-> started,
                     searches |-> <<"_search_wikipedia", "_search_web", "_search_news">>,
                     cache |-> (key :> started) @@ research_cache]
               [] outcome = "raises" ->
                    [val |-> found,
                     searches |-> <<"_search_wikipedia", "_search_web", "st.error">>,
                     cache |-> research_cache]

\* research_agent.research_topic(topic, ctx)
CallResearchTopic(topic, ctx, outcome) ==
    /\ pc = "idle"
    /\ LET r == research_topic(topic, ctx, outcome) IN
          /\ ret' = Ok(r.val)
          /\ calls' = r.searches
          /\ research_cache' = r.cache
    /\ entry' = "research_topic"
    /\ query' = topic
    /\ context' = ctx
    /\ pc' = "done"
    /\ UNCHANGED <<analysis_result, workflow, results, stage_idx,
                   ew_workflow_templates, ma_workflow_templates, now>>

\* The caller has the returned value; the instances wait for the next call.
Return ==
    /\ pc = "done"
    /\ pc' = "idle"
    /\ entry' = ""
    /\ query' = ""
    /\ context' = PyNone
    /\ analysis_result' = <<>>
    /\ workflow' = <<>>
    /\ results' = <<>>
    /\ stage_idx' = 0
    /\ calls' = <<>>
    /\ ret' = <<>>
    /\ UNCHANGED instance_vars

\* Time passes between two calls.
Tick(d) ==
    /\ pc = "idle"
    /\ now + d <= MaxClock
    /\ now' = now + d
    /\ UNCHANGED <<pc, entry, query, context, analysis_result, workflow,
                   results, stage_idx, calls, ret, ew_workflow_templates,
                   ma_workflow_templates, research_cache>>

NextResearch ==
    \/ \E topic \in ResearchTopics, ctx \in ResearchContexts,
          outcome \in ResearchOutcomes : CallResearchTopic(topic, ctx, outcome)
    \/ Return
    \/ \E d \in ClockSteps : Tick(d)

SpecResearch == Init /\ [][NextResearch]_vars

\* A step that is a call of research_topic, and the key it uses.
ResearchCall == pc = "idle" /\ pc' = "done" /\ entry' = "research_topic"

CalledKey == cache_key(query', context')

CachedAge(key) == now - fromisoformat(research_cache[key].timestamp)

Searched(log) == \E i \in 1..Len(log) : log[i] \in {"_search_wikipedia", "_search_web", "_search_news"}

\* C24: the research cache expires.  research_topic returns the stored
\* result only while the entry is younger than max_cache_age; an entry of
\* age max_cache_age or more, however old, is recomputed.
C24_CacheTTL ==
    [][ResearchCall /\ Has(research_cache, CalledKey) =>
          IF CachedAge(CalledKey) < max_cache_age
          THEN ret'.val = research_cache[CalledKey] /\ ~Searched(calls')
          ELSE Searched(calls')]_vars

\* C30: cache writes and hits.  A result is stored only by a call that
\* completed every step, under the key of that call; a call that raised
\* leaves the cache as it was; and a hit returns the stored result with no
\* search and no change of the cache.
C30_CacheWritesAndHits ==
    [][ResearchCall =>
          /\ research_cache' # research_cache =>
                /\ calls' = <<"_search_wikipedia", "_search_web", "_search_news">>
                /\ research_cache' = (CalledKey :> ret'.val) @@ research_cache
          /\ "st.error" \in {calls'[i] : i \in 1..Len(calls')} =>
                research_cache' = research_cache
          /\ _is_cached(CalledKey) =>
                /\ ret'.val = research_cache[CalledKey]
                /\ calls' = <<>>
                /\ research_cache' = research_cache]_vars

\* A failed research of a key was not stored, and after a completed one a
\* later call, half an hour on, was answered from the cache.
C30_Witness ==
    /\ entry = "research_topic" /\ pc = "done"
    /\ now = 1800
    /\ calls = <<>>
    /\ Has(research_cache, cache_key(query, context))
    /\ ret.val = research_cache[cache_key(query, context)]
    /\ ret.val.timestamp = isoformat(0)
    /\ ~Has(research_cache, cache_key(query, PyNone))

(***************************************************************************)
(* A session: the instances serve one call after another.                  *)
(***************************************************************************)
\* MasterAgent.get_agent_status
get_agent_status ==
    [total_agents |-> Len(CapabilityIds),
     available_agents |-> CapabilityIds,
     agent_capabilities |-> agent_capabilities,
     workflow_templates |-> ma_workflow_templates,
     timestamp |-> isoformat(now)]

\* master_agent.get_agent_status()
CallGetAgentStatus ==
    /\ UNCHANGED instance_vars
    /\ pc = "idle"
    /\ entry' = "get_agent_status"
    /\ ret' = Ok(get_agent_status)
    /\ pc' = "done"
    /\ UNCHANGED <<query, context, analysis_result, workflow, results,
                   stage_idx, calls>>

\* SimpleMasterAgentIntegration.get_available_workflows
get_available_workflows == ma_workflow_templates

NextSession ==
    \/ Next
    \/ \E q \in TestQueries : CallGetWorkflowSuggestions(q)
    \/ CallGetAgentStatus
    \/ Return

SpecSession == Init /\ [][NextSession]_vars

\* C25: the registry is read-only.  Whatever sequence of
\* get_workflow_for_query, execute_enhanced_workflow, process_query,
\* get_workflow_suggestions and get_agent_status calls the instances have
\* served, EnhancedWorkflows.workflow_templates and
\* MasterAgent.workflow_templates hold what __init__ put there.
C25_RegistryReadOnly ==
    /\ ew_workflow_templates = workflow_templates
    /\ ma_workflow_templates = master_workflow_templates

\* process_query has run the strategic template to its end and handed the
\* registry's own agents list to the caller; the registries are intact.
C25_Witness ==
    /\ entry = "process_query" /\ pc = "done"
    /\ ret.ok /\ ret.val.success
    /\ Len(results.stages) = 5
    /\ ret.val.agents_involved = ew_workflow_templates["strategic_analysis"].agents
    /\ ew_workflow_templates["strategic_analysis"].workflow =
          <<"data_analysis", "research", "business_advisor",
            "cross_validation", "strategic_synthesis">>
    /\ DOMAIN ma_workflow_templates =
          {"comprehensive_analysis", "business_strategy",
           "research_validation", "quick_analysis"}

\* C26: no automatic retry.  Within one run the provider of an agent stage
\* is invoked at most once, also when the invocation raised.
C26_NoRetry ==
    \A i, j \in 1..Len(calls) : calls[i].stage = calls[j].stage => i = j

\* A run was returned in which the research provider raised; each of the
\* three providers had been invoked once.
C26_Witness ==
    /\ pc = "done"
    /\ entry = "execute_enhanced_workflow"
    /\ ret.ok
    /\ [i \in 1..Len(calls) |-> calls[i].stage] =
          <<"data_analysis", "research", "business_advisor">>
    /\ calls[2].raised
    /\ ~calls[1].raised

\* C27: dependency barrier.  When the loop of a run of a registered
\* template is about to start a derived stage, the stages map, which is
\* what the derived stage receives, holds a result (success or failure) for
\* every stage that precedes it in the template, in the template's order.
C27_DependencyBarrier ==
    (InLoop /\ CurrentStage \notin AgentStageSet) =>
        /\ \A k \in 1..(stage_idx - 1) :
              HasStage(results.stages, workflow.workflow[k])
        /\ Len(results.stages) = stage_idx - 1

\* cross_validation is about to start after research failed: the failure
\* is in the map it receives.
C27_Witness ==
    /\ InLoop
    /\ CurrentStage = "cross_validation"
    /\ HasStage(results.stages, "research")
    /\ ~StageResult(results.stages, "research").success
    /\ StageResult(results.stages, "data_analysis").success

\* C28: what an agent stage records.  For every provider invocation of the
\* run whose stage has a result: the result has success = TRUE and carries
\* the payload as raw_result whenever neither the provider call nor the
\* summary call raised, also when the payload is an error report; it has
\* success = FALSE and the error text exactly when one of them raised.
C28_SuccessMeansNoException ==
    \A i \in 1..Len(calls) :
        (pc \in {"stages", "synthesize", "done"}
            /\ HasStage(results.stages, calls[i].stage)) =>
            LET r == StageResult(results.stages, calls[i].stage) IN
            IF calls[i].raised
            THEN r = [success |-> FALSE, error |-> calls[i].outcome.exc]
            ELSE /\ r.success
                 /\ r.raw_result = calls[i].outcome.result
                 /\ ~Has(r, "error")

\* The data analysis provider returned an error report and the stage was
\* recorded as a success.
C28_Witness ==
    /\ pc = "stages"
    /\ Len(calls) >= 1
    /\ calls[1].stage = "data_analysis"
    /\ ~calls[1].raised
    /\ Get(calls[1].outcome.result, "error", FALSE)
    /\ StageResult(results.stages, "data_analysis").success
    /\ StageResult(results.stages, "data_analysis").raw_result.error

\* C29: registry consistency.  The workflow_used of a successful
\* process_query is the name of one of the templates that
\* get_available_workflows returns.
C29_RegistryConsistency ==
    (entry = "process_query" /\ pc = "done" /\ ret.ok /\ ret.val.success) =>
        \E id \in DOMAIN get_available_workflows :
            get_available_workflows[id].name = ret.val.workflow_used

====
